---- MODULE Spec2Model ----
(***************************************************************************)
(* MovieMind: the natural-language search pipeline of                      *)
(* DatabaseManager.ai_search (src/database/db_manager.py).                 *)
(*                                                                         *)
(* Text is modelled as a sequence of one-character strings, so that        *)
(* strip, upper, startswith, find and slicing are computed as Python       *)
(* computes them.  The fixed Chinese literals of the source are written as *)
(* single ASCII pieces (the module's strings are ASCII only).              *)
(***************************************************************************)
EXTENDS Integers, Sequences, FiniteSets, TLC

(***************************************************************************)
(* Bounds of the model                                                     *)
(***************************************************************************)
\* model texts are concatenations of at most MaxChunks pieces of Vocabulary
MaxChunks == 2
\* user query texts have at most MaxUserLen characters
MaxUserLen == 1
\* the largest number of rows the data store returns for one statement
MaxRows == 52
\* keywords given to search_movies on its own have at most MaxKeywordLen characters
MaxKeywordLen == 2
\* the small catalogs hold at most MaxMovies movies
MaxMovies == 2
\* the raw texts given to the parser on its own are concatenations of at most
\* MaxPieces pieces of ParserPieces
MaxPieces == 4
\* rows of the user and review tables together, beyond which no operation starts
MaxStored == 2
\* request threads running register_user, and threads loading the intro cache
MaxThreads == 2
\* runs of _build_intro_cache after which no further call starts
MaxLoads == 3

(***************************************************************************)
(* Program constants                                                       *)
(***************************************************************************)
\* result[:50] in _execute_ai_sql, LIMIT 50 in search_movies
RowCap == 50
SearchLimit == 50
\* maxconn=10 of the SimpleConnectionPool
PoolMax == 10

(***************************************************************************)
(* Python string operations                                                *)
(***************************************************************************)
Min(S) == CHOOSE m \in S : \A n \in S : m <= n

\* str.upper(), on the characters the model texts are built from
UpperChar(c) ==
    CASE c = "s" -> "S"
      [] c = "e" -> "E"
      [] c = "l" -> "L"
      [] c = "c" -> "C"
      [] c = "t" -> "T"
      [] c = "a" -> "A"
      [] c = "o" -> "O"
      [] c = "k" -> "K"
      [] OTHER -> c

Upper(s) == [i \in 1..Len(s) |-> UpperChar(s[i])]

\* the characters str.strip() removes
IsSpace(c) == c \in {" ", "\n", "\r", "\t"}

RECURSIVE LStrip(_)
LStrip(s) == IF s # <<>> /\ IsSpace(Head(s)) THEN LStrip(Tail(s)) ELSE s

RECURSIVE RStrip(_)
RStrip(s) ==
    IF s # <<>> /\ IsSpace(s[Len(s)]) THEN RStrip(SubSeq(s, 1, Len(s) - 1)) ELSE s

\* str.strip()
Strip(s) == RStrip(LStrip(s))

\* str.rstrip(',')
RECURSIVE RStripComma(_)
RStripComma(s) ==
    IF s # <<>> /\ s[Len(s)] = "," THEN RStripComma(SubSeq(s, 1, Len(s) - 1)) ELSE s

\* str.startswith(p)
StartsWith(s, p) == Len(s) >= Len(p) /\ SubSeq(s, 1, Len(p)) = p

\* str.find(p): the 0-based index of the first occurrence of p in s, or -1
Find(s, p) ==
    LET hits == {i \in 0..(Len(s) - Len(p)) : SubSeq(s, i + 1, i + Len(p)) = p}
    IN  IF hits = {} THEN -1 ELSE Min(hits)

\* s[i:] and s[:i] for 0 <= i <= len(s)
SliceFrom(s, i) == SubSeq(s, i + 1, Len(s))
SliceTo(s, i) == SubSeq(s, 1, i)

\* p in s
Contains(s, p) == Find(s, p) # -1

(***************************************************************************)
(* Literals of the source                                                  *)
(***************************************************************************)
SELECT == <<"S", "E", "L", "E", "C", "T">>
\* the code-fence marker: three backquotes (a TLA+ string cannot hold a backquote,
\* BQ stands for it)
BQ == "^"
FENCE == <<BQ, BQ, BQ>>
NLNL == <<"\n", "\n">>
CRLFCRLF == <<"\r", "\n", "\r", "\n">>

\* the f-string SELECT * FROM movie WHERE cn_title ILIKE '%{user_input}%'
FallbackSqlHead == <<"SELECT * FROM movie WHERE ", "cn_title ILIKE '%">>
FallbackSqlTail == <<"%'">>
\* the literal "guan jian ci sou suo: " (keyword search) of f'...: {user_input}'
KeywordSearchLabel == <<"[keyword search]", ":", " ">>
\* the default interpretation "AI sheng cheng de cha xun" (AI generated query)
DefaultInterpretation == <<"[AI generated query]">>
\* "cong wen ben zhong ti qu de cha xun" (query extracted from text)
ExtractedInterpretation == <<"[query extracted from text]">>
\* "wu fa jie xi AI xiang ying" (unable to parse the AI response)
UnparsableInterpretation == <<"[unable to parse AI response]">>

(***************************************************************************)
(* Values                                                                  *)
(***************************************************************************)
\* Optional[str]: None, or a text
NoneStr == [isNone |-> TRUE, s |-> <<>>]
Some(t) == [isNone |-> FALSE, s |-> t]
\* Python truthiness of an Optional[str]: None and '' are false
Truthy(o) == ~o.isNone /\ o.s # <<>>

\* the pieces the model texts are built from: the read verb in both cases, the
\* four write verbs, a second statement after a semicolon, white space, a
\* trailing comma and the two terminators of the raw-text scan
Vocabulary ==
    { SELECT,
      <<"s", "e", "l", "e", "c", "t">>,
      <<"I", "N", "S", "E", "R", "T">>,
      <<"U", "P", "D", "A", "T", "E">>,
      <<"D", "E", "L", "E", "T", "E">>,
      <<"D", "R", "O", "P">>,
      <<";", "D", "R", "O", "P">>,
      <<" ">>,
      <<",">>,
      FENCE,
      NLNL }

RECURSIVE TextsOf(_)
TextsOf(n) ==
    IF n = 0 THEN {<<>>}
    ELSE LET prev == TextsOf(n - 1)
         IN  prev \cup {t \o c : t \in prev, c \in Vocabulary}

ModelTexts == TextsOf(MaxChunks)

UserAlphabet == {"a"}
RECURSIVE UserTextsOf(_)
UserTextsOf(n) ==
    IF n = 0 THEN {<<>>}
    ELSE LET prev == UserTextsOf(n - 1)
         IN  prev \cup {Append(t, c) : t \in prev, c \in UserAlphabet}

\* the user_input argument of ai_search
UserTexts == UserTextsOf(MaxUserLen)

\* Config.DEEPSEEK_API_KEY: os.getenv('DEEPSEEK_API_KEY', '')
ApiKeys == {<<>>, <<"k">>}

\* A field of a JSON object as parsed.get(name, default) sees it: absent, JSON
\* null, a JSON value that is no string (number, array, object, boolean), or a
\* string
Absent == [tag |-> "absent", val |-> <<>>]
Null == [tag |-> "null", val |-> <<>>]
NonString == [tag |-> "nonstring", val |-> <<>>]
Str(t) == [tag |-> "str", val |-> t]

SqlFields == {Absent, Null, NonString} \cup {Str(t) : t \in ModelTexts}
InterpretationFields == {Absent, Null, NonString, Str(<<" ", "o", "k", " ">>)}

\* The value _call_deepseek_api returns, by what json.loads makes of it:
\*   none       None
\*   object     text that is a JSON object with the fields sql, interpretation
\*   nonobject  text that is JSON but no object (array, number, string, null)
\*   text       text that is no JSON; raw is the text
NoResponse == [kind |-> "none", raw |-> <<>>, sql |-> Absent, interpretation |-> Absent]
ObjectResponse(q, i) == [kind |-> "object", raw |-> <<>>, sql |-> q, interpretation |-> i]
NonObjectResponse ==
    [kind |-> "nonobject", raw |-> <<>>, sql |-> Absent, interpretation |-> Absent]
TextResponse(t) == [kind |-> "text", raw |-> t, sql |-> Absent, interpretation |-> Absent]

\* the contents choices[0].message.content can carry
Contents ==
    {ObjectResponse(q, i) : q \in SqlFields, i \in InterpretationFields}
    \cup {NonObjectResponse}
    \cup {TextResponse(t) : t \in ModelTexts}

\* "not response": None and the empty text are false, a JSON text is never empty
ResponseFalsy(r) == r.kind = "none" \/ (r.kind = "text" /\ r.raw = <<>>)

\* The column sets of the rows a statement yields
SummaryColumns ==
    {"movie_id", "rank", "cn_title", "original_title", "year", "rating",
     "poster_url", "directors", "actors"}
ColumnSets == {SummaryColumns, {"movie_id", "cn_title"}}

\* The numbers of rows the store answers a generated statement with
RowCounts == {0, 1, RowCap - 1, RowCap, RowCap + 1, MaxRows}
\* search_movies ends in LIMIT 50
SearchCounts == {0, 1, SearchLimit}

\* the rows of one answer, in the order the store gives them
RowsOf(n) == [k \in 1..n |-> k]

\* The outcome of one call of execute_query: it raises, or returns rows
Raised == [raised |-> TRUE, cols |-> {}, rows |-> <<>>]
Returned(cols, rows) == [raised |-> FALSE, cols |-> cols, rows |-> rows]

(***************************************************************************)
(* _build_ai_search_prompt                                                 *)
(***************************************************************************)
\* the template before and after the one place it embeds {user_input}
PromptHead == <<"[schema and instructions]", "[user query: ]", "\"">>
PromptTail == <<"\"", "[rules, response format, examples]">>

BuildAiSearchPrompt(text) == PromptHead \o text \o PromptTail

(***************************************************************************)
(* _call_deepseek_api                                                      *)
(***************************************************************************)
\* What the one requests.post can end in: it raises (network error, timeout),
\* answers with a status other than 200, answers 200 with a body that is no
\* JSON or has no choices[0].message.content, or answers 200 with a content
PostFailures == {"network_error", "timeout", "non200", "malformed"}
PostFailed(e) == [event |-> e, content |-> NoResponse]
PostContent(c) == [event |-> "content", content |-> c]
PostOutcomes == {PostFailed(e) : e \in PostFailures} \cup {PostContent(c) : c \in Contents}

\* the value _call_deepseek_api returns for an outcome of the POST
CallDeepseekApi(outcome) ==
    IF outcome.event = "content" THEN outcome.content ELSE NoResponse

(***************************************************************************)
(* _parse_ai_response                                                      *)
(***************************************************************************)
\* the parser returns (sql, interpretation), or an exception other than
\* JSONDecodeError leaves it
ParseRaised == [raised |-> TRUE, sql |-> NoneStr, interpretation |-> <<>>]
Parsed(q, i) == [raised |-> FALSE, sql |-> q, interpretation |-> i]

\* parsed.get(name, default)
FieldGet(f, default) == IF f.tag = "absent" THEN Str(default) ELSE f

\* ParseStructured without the check of the leading verb
ParseStructured_NoVerbCheck(r) ==
    LET sqlField == FieldGet(r.sql, <<>>)
        interpField == FieldGet(r.interpretation, DefaultInterpretation)
    IN  IF r.kind = "nonobject" THEN ParseRaised
        ELSE IF sqlField.tag # "str" THEN ParseRaised
        ELSE IF interpField.tag # "str" THEN ParseRaised
        ELSE LET sql == Strip(sqlField.val)
                 interp == Strip(interpField.val)
             IN  IF sql # <<>> THEN Parsed(Some(sql), interp) ELSE Parsed(NoneStr, interp)

\* ParseStructured without the two .strip() calls
ParseStructured_NoStrip(r) ==
    LET sqlField == FieldGet(r.sql, <<>>)
        interpField == FieldGet(r.interpretation, DefaultInterpretation)
    IN  IF r.kind = "nonobject" THEN ParseRaised
        ELSE IF sqlField.tag # "str" THEN ParseRaised
        ELSE IF interpField.tag # "str" THEN ParseRaised
        ELSE LET sql == sqlField.val
                 interp == interpField.val
             IN  IF sql # <<>> /\ StartsWith(Upper(sql), SELECT)
                 THEN Parsed(Some(sql), interp)
                 ELSE Parsed(NoneStr, interp)

\* the try block: json.loads succeeded
ParseStructured(r) ==
    LET sqlField == FieldGet(r.sql, <<>>)
        interpField == FieldGet(r.interpretation, DefaultInterpretation)
    IN  IF r.kind = "nonobject" THEN ParseRaised          \* no .get on it
        ELSE IF sqlField.tag # "str" THEN ParseRaised     \* no .strip on it
        ELSE IF interpField.tag # "str" THEN ParseRaised
        ELSE LET sql == Strip(sqlField.val)
                 interp == Strip(interpField.val)
             IN  IF sql # <<>> /\ StartsWith(Upper(sql), SELECT)
                 THEN Parsed(Some(sql), interp)
                 ELSE Parsed(NoneStr, interp)

\* CutAtTerminator looking for the blank line before the fence
CutAtTerminator_BlankLineFirst(cand) ==
    IF Find(cand, NLNL) # -1 THEN SliceTo(cand, Find(cand, NLNL))
    ELSE IF Find(cand, FENCE) # -1 THEN SliceTo(cand, Find(cand, FENCE))
    ELSE IF Find(cand, CRLFCRLF) # -1 THEN SliceTo(cand, Find(cand, CRLFCRLF))
    ELSE cand

\* for terminator in [fence, '\n\n', '\r\n\r\n']: cut at the first one found
CutAtTerminator(cand) ==
    IF Find(cand, FENCE) # -1 THEN SliceTo(cand, Find(cand, FENCE))
    ELSE IF Find(cand, NLNL) # -1 THEN SliceTo(cand, Find(cand, NLNL))
    ELSE IF Find(cand, CRLFCRLF) # -1 THEN SliceTo(cand, Find(cand, CRLFCRLF))
    ELSE cand

\* the except json.JSONDecodeError block
ParseRawText(response) ==
    LET sql_start == Find(Upper(response), SELECT)
    IN  IF sql_start # -1
        THEN LET sql_candidate ==
                     RStripComma(Strip(CutAtTerminator(SliceFrom(response, sql_start))))
             IN  IF StartsWith(Upper(sql_candidate), SELECT)
                 THEN Parsed(Some(sql_candidate), ExtractedInterpretation)
                 ELSE Parsed(NoneStr, UnparsableInterpretation)
        ELSE Parsed(NoneStr, UnparsableInterpretation)

ParseAiResponse(r) ==
    IF r.kind = "text" THEN ParseRawText(r.raw) ELSE ParseStructured(r)

(***************************************************************************)
(* _execute_ai_sql                                                         *)
(***************************************************************************)
\* not sql_query or not sql_query.upper().strip().startswith('SELECT')
RejectsStatement(sql) == sql = <<>> \/ ~StartsWith(Strip(Upper(sql)), SELECT)

\* rows of a RealDictCursor are dicts
RowIsDict(row) == TRUE

\* ExecuteAiSqlResult without the [:50] slice
ExecuteAiSqlResult_NoCap(outcome) ==
    IF outcome.raised THEN <<>> ELSE outcome.rows

\* what _execute_ai_sql returns for the outcome of execute_query
ExecuteAiSqlResult(outcome) ==
    IF outcome.raised THEN <<>>                          \* except Exception: return []
    ELSE IF outcome.rows # <<>> /\ RowIsDict(outcome.rows[1])
         THEN SubSeq(outcome.rows, 1, IF Len(outcome.rows) < RowCap
                                      THEN Len(outcome.rows) ELSE RowCap)
         ELSE outcome.rows                               \* result or []

(***************************************************************************)
(* ai_search                                                               *)
(***************************************************************************)
NoResult == [returned |-> FALSE, movies |-> <<>>, cols |-> {}, sql |-> <<>>,
             interpretation |-> <<>>]
Result(movies, cols, sql, interp) ==
    [returned |-> TRUE, movies |-> movies, cols |-> cols, sql |-> sql,
     interpretation |-> interp]

FallbackSql(text) == FallbackSqlHead \o text \o FallbackSqlTail
FallbackInterpretation(text) == KeywordSearchLabel \o text

\* the dict the four keyword-search branches return
FallbackResult(text, outcome) ==
    Result(outcome.rows, outcome.cols, FallbackSql(text), FallbackInterpretation(text))

(***************************************************************************)
(* The /api/ai-search handler (src/backend/app.py)                         *)
(***************************************************************************)
\* What request.get_json() and data.get('query', '') make of a request: the
\* body is a JSON object or not (no JSON, null, an array: get_json raises or
\* data.get raises), and its query field is absent, null or a string
MalformedBody == [json_object |-> FALSE, query |-> Absent]
ObjectBody(q) == [json_object |-> TRUE, query |-> q]
RequestBodies ==
    {MalformedBody} \cup {ObjectBody(q) : q \in {Absent, Null} \cup {Str(t) : t \in UserTexts}}

\* no request is being handled (ai_search may still be called directly)
NoRequest == [active |-> FALSE, body |-> MalformedBody, status |-> 0, cancelled |-> FALSE]
Handling(body, status) ==
    [active |-> TRUE, body |-> body, status |-> status, cancelled |-> FALSE]

\* "not user_input" for user_input = data.get('query', '')
QueryFalsy(body) == FieldGet(body.query, <<>>).tag # "str" \/ FieldGet(body.query, <<>>).val = <<>>

VARIABLES
    api_key,         \* Config.DEEPSEEK_API_KEY
    pc,              \* where the invocation of ai_search stands
    user_input,      \* the argument of ai_search
    prompt,          \* local: the prompt built
    response,        \* local: what _call_deepseek_api returned
    sql_query,       \* local: the statement the parser returned
    interpretation,  \* local: the interpretation the parser returned
    result,          \* the dict ai_search returned
    posts,           \* the POSTs made: the prompt sent and the outcome
    queries,         \* the execute_query calls of _execute_ai_sql and their outcomes
    searches,        \* the search_movies calls and their outcomes
    http,            \* the /api/ai-search request being handled and its answer
    catalog,         \* the movie rows of the data store
    pool,            \* connection_pool: the connections other operations hold
    op,              \* one operation of DatabaseManager on the store, step by step
    users,           \* the rows of the "user" table
    reviews,         \* the rows of the review table
    reg,             \* the /api/auth/register requests in flight, per thread
    intro,           \* intro_loader: _intro_cache, Intro.json and what was read
    loaders          \* the get_movie_introduction calls in flight, per thread

vars == <<api_key, pc, user_input, prompt, response, sql_query, interpretation,
          result, posts, queries, searches, http, catalog,
          pool, op, users, reviews, reg, intro, loaders>>

\* the state outside ai_search and its handler
aside == <<pool, op, users, reviews, reg, intro, loaders>>

\* nothing outside ai_search is going on
AsideIdle ==
    /\ pool = 0
    /\ op = <<>>
    /\ users = {}
    /\ reviews = {}
    /\ reg = <<>>
    /\ intro = <<>>
    /\ loaders = <<>>

locals == <<prompt, response, sql_query, interpretation>>
logs == <<posts, queries, searches>>

FallbackSites == {"fallback_nokey", "fallback_api", "fallback_nosql"}

Init ==
    /\ api_key \in ApiKeys
    /\ pc = "idle"
    /\ user_input = <<>>
    /\ prompt = <<>>
    /\ response = NoResponse
    /\ sql_query = NoneStr
    /\ interpretation = <<>>
    /\ result = NoResult
    /\ posts = <<>>
    /\ queries = <<>>
    /\ searches = <<>>
    /\ http = NoRequest
    /\ catalog = <<>>
    /\ AsideIdle

\* a caller invokes ai_search(text)
Invoke ==
    /\ pc = "idle"
    /\ \E text \in UserTexts : user_input' = text
    /\ pc' = "gate"
    /\ UNCHANGED <<aside, catalog, http, api_key, locals, result, logs>>

\* AvailabilityGate without the check of the credential
AvailabilityGate_NoCheck ==
    /\ pc = "gate"
    /\ pc' = "build"
    /\ UNCHANGED <<aside, catalog, http, api_key, user_input, locals, result, logs>>

\* if not Config.DEEPSEEK_API_KEY
AvailabilityGate ==
    /\ pc = "gate"
    /\ pc' = IF api_key = <<>> THEN "fallback_nokey" ELSE "build"
    /\ UNCHANGED <<aside, catalog, http, api_key, user_input, locals, result, logs>>

\* prompt = self._build_ai_search_prompt(user_input)
BuildPrompt ==
    /\ pc = "build"
    /\ prompt' = BuildAiSearchPrompt(user_input)
    /\ pc' = "call_api"
    /\ UNCHANGED <<aside, catalog, http, api_key, user_input, response, sql_query, interpretation, result, logs>>

\* CallApi with a _call_deepseek_api that lets the exception of requests.post out
CallApi_Propagates ==
    /\ pc = "call_api"
    /\ \E outcome \in PostOutcomes :
          /\ posts' = Append(posts, [prompt |-> prompt, outcome |-> outcome])
          /\ IF outcome.event \in {"network_error", "timeout"}
             THEN pc' = "except" /\ UNCHANGED response
             ELSE /\ response' = CallDeepseekApi(outcome)
                  /\ pc' = IF ResponseFalsy(CallDeepseekApi(outcome))
                           THEN "fallback_api" ELSE "parse"
    /\ UNCHANGED <<aside, catalog, http, api_key, user_input, prompt, sql_query, interpretation, result,
                   queries, searches>>

\* CallApi posting again after a failed attempt
CallApi_Retries ==
    /\ pc = "call_api"
    /\ \E outcome \in PostOutcomes :
          /\ posts' = Append(posts, [prompt |-> prompt, outcome |-> outcome])
          /\ response' = CallDeepseekApi(outcome)
          /\ pc' = IF outcome.event # "content" THEN "call_api"
                   ELSE IF ResponseFalsy(CallDeepseekApi(outcome)) THEN "fallback_api"
                   ELSE "parse"
    /\ UNCHANGED <<aside, catalog, http, api_key, user_input, prompt, sql_query, interpretation,
                   result, queries, searches>>

\* response = self._call_deepseek_api(prompt); if not response: fall back
CallApi ==
    /\ pc = "call_api"
    /\ \E outcome \in PostOutcomes :
          /\ posts' = Append(posts, [prompt |-> prompt, outcome |-> outcome])
          /\ response' = CallDeepseekApi(outcome)
          /\ pc' = IF ResponseFalsy(CallDeepseekApi(outcome)) THEN "fallback_api" ELSE "parse"
    /\ UNCHANGED <<aside, catalog, http, api_key, user_input, prompt, sql_query, interpretation, result,
                   queries, searches>>

\* ParseResponse outside the try block: an exception of the parser leaves ai_search
ParseResponse_Uncaught ==
    /\ pc = "parse"
    /\ LET parsed == ParseAiResponse(response)
       IN  IF parsed.raised
           THEN /\ pc' = "raised"
                /\ UNCHANGED <<sql_query, interpretation>>
           ELSE /\ sql_query' = parsed.sql
                /\ interpretation' = parsed.interpretation
                /\ pc' = IF Truthy(parsed.sql) THEN "execute" ELSE "fallback_nosql"
    /\ UNCHANGED <<aside, catalog, http, api_key, user_input, prompt, response, result, logs>>

\* ParseResponse without the "if not sql_query" branch
ParseResponse_NoSqlCheck ==
    /\ pc = "parse"
    /\ LET parsed == ParseAiResponse(response)
       IN  IF parsed.raised
           THEN /\ pc' = "except"
                /\ UNCHANGED <<sql_query, interpretation>>
           ELSE /\ sql_query' = parsed.sql
                /\ interpretation' = parsed.interpretation
                /\ pc' = "execute"
    /\ UNCHANGED <<aside, catalog, http, api_key, user_input, prompt, response, result, logs>>

\* sql_query, interpretation = self._parse_ai_response(response); if not sql_query
ParseResponse ==
    /\ pc = "parse"
    /\ LET parsed == ParseAiResponse(response)
       IN  IF parsed.raised
           THEN /\ pc' = "except"
                /\ UNCHANGED <<sql_query, interpretation>>
           ELSE /\ sql_query' = parsed.sql
                /\ interpretation' = parsed.interpretation
                /\ pc' = IF Truthy(parsed.sql) THEN "execute" ELSE "fallback_nosql"
    /\ UNCHANGED <<aside, catalog, http, api_key, user_input, prompt, response, result, logs>>

\* the outcomes of execute_query(sql_query) for a generated statement
QueryOutcomes ==
    {Raised} \cup {Returned(cols, RowsOf(n)) : cols \in ColumnSets, n \in RowCounts}

\* ExecuteAiSql with an _execute_ai_sql that lets the exception of the store out
ExecuteAiSql_Propagates ==
    /\ pc = "execute"
    /\ IF RejectsStatement(sql_query.s)
       THEN /\ result' = Result(<<>>, {}, sql_query.s, interpretation)
            /\ pc' = "done"
            /\ UNCHANGED queries
       ELSE \E outcome \in QueryOutcomes :
               /\ queries' = Append(queries, [sql |-> sql_query.s, outcome |-> outcome])
               /\ IF outcome.raised
                  THEN pc' = "except" /\ UNCHANGED result
                  ELSE /\ pc' = "done"
                       /\ result' = Result(ExecuteAiSqlResult(outcome), outcome.cols,
                                           sql_query.s, interpretation)
    /\ UNCHANGED <<aside, catalog, http, api_key, user_input, locals, posts, searches>>

\* ExecuteAiSql going on to the keyword search when the store raises
ExecuteAiSql_FallsBack ==
    /\ pc = "execute"
    /\ IF RejectsStatement(sql_query.s)
       THEN /\ result' = Result(<<>>, {}, sql_query.s, interpretation)
            /\ pc' = "done"
            /\ UNCHANGED queries
       ELSE \E outcome \in QueryOutcomes :
               /\ queries' = Append(queries, [sql |-> sql_query.s, outcome |-> outcome])
               /\ IF outcome.raised
                  THEN pc' = "fallback_nosql" /\ UNCHANGED result
                  ELSE /\ pc' = "done"
                       /\ result' = Result(ExecuteAiSqlResult(outcome), outcome.cols,
                                           sql_query.s, interpretation)
    /\ UNCHANGED <<aside, catalog, http, api_key, user_input, locals, posts, searches>>

\* movies = self._execute_ai_sql(sql_query); return the AI result
ExecuteAiSql ==
    /\ pc = "execute"
    /\ IF RejectsStatement(sql_query.s)
       THEN /\ result' = Result(<<>>, {}, sql_query.s, interpretation)
            /\ UNCHANGED queries
       ELSE \E outcome \in QueryOutcomes :
               /\ queries' = Append(queries, [sql |-> sql_query.s, outcome |-> outcome])
               /\ result' = Result(ExecuteAiSqlResult(outcome), outcome.cols,
                                   sql_query.s, interpretation)
    /\ pc' = "done"
    /\ UNCHANGED <<aside, catalog, http, api_key, user_input, locals, posts, searches>>

\* the outcomes of self.search_movies(keyword): execute_query raises, or rows
SearchOutcomes == {Raised} \cup {Returned(SummaryColumns, RowsOf(n)) : n \in SearchCounts}

\* movies = self.search_movies(user_input); return ..., inside the try block
KeywordFallback ==
    /\ pc \in FallbackSites
    /\ \E outcome \in SearchOutcomes :
          /\ searches' = Append(searches, [keyword |-> user_input, outcome |-> outcome])
          /\ IF outcome.raised
             THEN pc' = "except" /\ UNCHANGED result
             ELSE pc' = "done" /\ result' = FallbackResult(user_input, outcome)
    /\ UNCHANGED <<aside, catalog, http, api_key, user_input, locals, posts, queries>>

\* ExceptFallback starting the pipeline over when the keyword search raises
ExceptFallback_StartsOver ==
    /\ pc = "except"
    /\ \E outcome \in SearchOutcomes :
          /\ searches' = Append(searches, [keyword |-> user_input, outcome |-> outcome])
          /\ IF outcome.raised
             THEN pc' = "gate" /\ UNCHANGED result
             ELSE pc' = "done" /\ result' = FallbackResult(user_input, outcome)
    /\ UNCHANGED <<aside, catalog, http, api_key, user_input, locals, posts, queries>>

\* except Exception: movies = self.search_movies(user_input); return ...
ExceptFallback ==
    /\ pc = "except"
    /\ \E outcome \in SearchOutcomes :
          /\ searches' = Append(searches, [keyword |-> user_input, outcome |-> outcome])
          /\ IF outcome.raised
             THEN pc' = "raised" /\ UNCHANGED result
             ELSE pc' = "done" /\ result' = FallbackResult(user_input, outcome)
    /\ UNCHANGED <<aside, catalog, http, api_key, user_input, locals, posts, queries>>

\* HandleRequest without the "if not user_input" answer
HandleRequest_NoEmptyCheck ==
    /\ pc = "idle"
    /\ \E body \in RequestBodies :
          IF ~body.json_object
          THEN /\ http' = Handling(body, 500)
               /\ pc' = "responded"
               /\ UNCHANGED user_input
          ELSE /\ http' = Handling(body, 0)
               /\ user_input' = FieldGet(body.query, <<>>).val
               /\ pc' = "gate"
    /\ UNCHANGED <<aside, catalog, api_key, locals, result, logs>>

\* ai_search() of app.py up to the call of db_manager.ai_search: a body that is
\* no JSON object ends in the except branch (500), an empty or missing query
\* in the 400 answer, anything else invokes the pipeline
HandleRequest ==
    /\ pc = "idle"
    /\ \E body \in RequestBodies :
          IF ~body.json_object
          THEN /\ http' = Handling(body, 500)
               /\ pc' = "responded"
               /\ UNCHANGED user_input
          ELSE IF QueryFalsy(body)
          THEN /\ http' = Handling(body, 400)
               /\ pc' = "responded"
               /\ UNCHANGED user_input
          ELSE /\ http' = Handling(body, 0)
               /\ user_input' = body.query.val
               /\ pc' = "gate"
    /\ UNCHANGED <<aside, catalog, api_key, locals, result, logs>>

\* the client goes away while the POST to the model is in flight; nothing in
\* the handler or in _call_deepseek_api looks at it
CancelRequest ==
    /\ pc = "call_api"
    /\ http.active
    /\ ~http.cancelled
    /\ http' = [http EXCEPT !.cancelled = TRUE]
    /\ UNCHANGED <<aside, catalog, api_key, pc, user_input, locals, result, logs>>

\* Respond answering an empty movies list with an error
Respond_EmptyIsError ==
    /\ pc \in {"done", "raised"}
    /\ http.active
    /\ http.status = 0
    /\ http' = [http EXCEPT !.status = IF pc = "done" /\ result.movies # <<>>
                                       THEN 200 ELSE 500]
    /\ UNCHANGED <<aside, catalog, api_key, pc, user_input, locals, result, logs>>

\* ai_search() of app.py after db_manager.ai_search: jsonify the result (200),
\* or the except branch (500) when it raised
Respond ==
    /\ pc \in {"done", "raised"}
    /\ http.active
    /\ http.status = 0
    /\ http' = [http EXCEPT !.status = IF pc = "done" THEN 200 ELSE 500]
    /\ UNCHANGED <<aside, catalog, api_key, pc, user_input, locals, result, logs>>

Next ==
    \/ HandleRequest
    \/ CancelRequest
    \/ Respond
    \/ Invoke
    \/ AvailabilityGate
    \/ BuildPrompt
    \/ CallApi
    \/ ParseResponse
    \/ ExecuteAiSql
    \/ KeywordFallback
    \/ ExceptFallback

Spec == Init /\ [][Next]_vars

(***************************************************************************)
(* The parser on raw text: ai_search from the point where                  *)
(* _call_deepseek_api has returned a text that is no JSON                  *)
(***************************************************************************)
\* the pieces of the raw texts: the read verb in both cases, a character that
\* is neither white space nor a comma, white space, a comma, the code fence
\* and the blank line
ParserPieces ==
    { SELECT,
      <<"s", "e", "l", "e", "c", "t">>,
      <<"*">>,
      <<" ">>,
      <<",">>,
      FENCE,
      NLNL }

RECURSIVE ParserTextsOf(_)
ParserTextsOf(n) ==
    IF n = 0 THEN {<<>>}
    ELSE LET prev == ParserTextsOf(n - 1)
         IN  prev \cup {t \o c : t \in prev, c \in ParserPieces}

\* an empty content never reaches the parser ("if not response" comes first)
ParserTexts == ParserTextsOf(MaxPieces) \ {<<>>}

\* ai_search("a") with a credential, after response = _call_deepseek_api(prompt)
\* returned the text
InitParser ==
    /\ api_key = <<"k">>
    /\ pc = "parse"
    /\ user_input = <<"a">>
    /\ prompt = BuildAiSearchPrompt(<<"a">>)
    /\ \E t \in ParserTexts :
          /\ response = TextResponse(t)
          /\ posts = <<[prompt |-> BuildAiSearchPrompt(<<"a">>),
                        outcome |-> PostContent(TextResponse(t))]>>
    /\ sql_query = NoneStr
    /\ interpretation = <<>>
    /\ result = NoResult
    /\ queries = <<>>
    /\ searches = <<>>
    /\ http = NoRequest
    /\ catalog = <<>>
    /\ AsideIdle

NextParser ==
    \/ ParseResponse
    \/ ExecuteAiSql
    \/ KeywordFallback
    \/ ExceptFallback

ParserSpec == InitParser /\ [][NextParser]_vars

(***************************************************************************)
(* search_movies on a catalog                                              *)
(***************************************************************************)
\* a row of movie with the names joined to it: rank is UNIQUE NOT NULL,
\* cn_title NOT NULL, original_title may be NULL
Movie(id, rank, cn, orig, dirs, acts) ==
    [movie_id |-> id, rank |-> rank, cn_title |-> cn, original_title |-> orig,
     directors |-> dirs, actors |-> acts]

\* movies to build small catalogs from: each is found through another column,
\* in another case, or holds a character that is special in a pattern
MoviePool ==
    { Movie(6, 1, <<"k">>, NoneStr, {}, {}),
      Movie(5, 2, <<"A">>, Some(<<"k">>), {}, {}),
      Movie(4, 3, <<"k">>, Some(<<"k", "a">>), {}, {}),
      Movie(3, 4, <<"k">>, NoneStr, {<<"a">>, <<"k">>}, {}),
      Movie(2, 5, <<"k">>, NoneStr, {}, {<<"k", "A">>}),
      Movie(1, 6, <<"a", "%", "k">>, Some(<<"_">>), {}, {}) }

\* n movies of the same title, to reach the LIMIT
ManyMovies(n) == {Movie(100 + n - r, r, <<"a">>, NoneStr, {}, {}) : r \in 1..n}

Catalogs ==
    {c \in SUBSET MoviePool : Cardinality(c) <= MaxMovies}
    \cup {ManyMovies(SearchLimit), ManyMovies(SearchLimit + 1)}

KeywordAlphabet == {"a", "k", "%", "_"}
RECURSIVE KeywordsOf(_)
KeywordsOf(n) ==
    IF n = 0 THEN {<<>>}
    ELSE LET prev == KeywordsOf(n - 1)
         IN  prev \cup {Append(t, c) : t \in prev, c \in KeywordAlphabet}

\* the keyword argument of search_movies
Keywords == KeywordsOf(MaxKeywordLen)

\* text ILIKE pattern: % stands for any run of characters, _ for any one
\* character, every other character for itself in either case
RECURSIVE ILike(_, _)
ILike(text, pattern) ==
    IF pattern = <<>> THEN text = <<>>
    ELSE IF Head(pattern) = "%"
         THEN ILike(text, Tail(pattern)) \/ (text # <<>> /\ ILike(Tail(text), pattern))
    ELSE IF Head(pattern) = "_"
         THEN text # <<>> /\ ILike(Tail(text), Tail(pattern))
    ELSE /\ text # <<>>
         /\ UpperChar(Head(text)) = UpperChar(Head(pattern))
         /\ ILike(Tail(text), Tail(pattern))

\* search_pattern = f"%{keyword}%"
SearchPattern(keyword) == <<"%">> \o keyword \o <<"%">>

\* the WHERE clause; NULL ILIKE pattern is not true
SearchMatches(m, pattern) ==
    \/ ILike(m.cn_title, pattern)
    \/ ~m.original_title.isNone /\ ILike(m.original_title.s, pattern)
    \/ \E d \in m.directors : ILike(d, pattern)
    \/ \E a \in m.actors : ILike(a, pattern)

\* ORDER BY m.rank
RECURSIVE OrderByRank(_)
OrderByRank(ms) ==
    IF ms = {} THEN <<>>
    ELSE LET first == CHOOSE m \in ms : \A n \in ms : m.rank <= n.rank
         IN  <<first>> \o OrderByRank(ms \ {first})

\* LIMIT n
Limit(rows, n) == SubSeq(rows, 1, IF Len(rows) < n THEN Len(rows) ELSE n)

\* the rows search_movies returns, each named by its movie_id
SearchMoviesRows(movies, keyword) ==
    LET matching == {m \in movies : SearchMatches(m, SearchPattern(keyword))}
        ordered == Limit(OrderByRank(matching), SearchLimit)
    IN  [k \in 1..Len(ordered) |-> ordered[k].movie_id]

\* the store holds a catalog and nothing has been searched yet
InitSearch ==
    /\ api_key \in ApiKeys
    /\ pc = "idle"
    /\ user_input = <<>>
    /\ prompt = <<>>
    /\ response = NoResponse
    /\ sql_query = NoneStr
    /\ interpretation = <<>>
    /\ result = NoResult
    /\ posts = <<>>
    /\ queries = <<>>
    /\ searches = <<>>
    /\ http = NoRequest
    /\ catalog \in Catalogs
    /\ AsideIdle

\* a call of search_movies(keyword)
SearchMovies ==
    /\ searches = <<>>
    /\ \E keyword \in Keywords :
          searches' = Append(searches,
                             [keyword |-> keyword,
                              outcome |-> Returned(SummaryColumns,
                                                   SearchMoviesRows(catalog, keyword))])
    /\ UNCHANGED <<aside, catalog, http, api_key, pc, user_input, locals, result, posts, queries>>

NextSearch == SearchMovies

SearchSpec == InitSearch /\ [][NextSearch]_vars

(***************************************************************************)
(* The operations of DatabaseManager on the pooled connections:            *)
(* execute_query, execute_update, create_user, create_review               *)
(***************************************************************************)
OperationKinds == {"execute_query", "execute_update", "create_user", "create_review"}

\* rating arguments, in tenths: -1.0, 0, 2.5, 3.5, 5, 6; None stands for a
\* value float() rejects
NotANumber == [numeric |-> FALSE, tenths |-> 0]
Number(t) == [numeric |-> TRUE, tenths |-> t]
Ratings == {NotANumber} \cup {Number(t) : t \in {-10, 0, 25, 35, 50, 60}}

\* int(round(x)) for x given in tenths: round half to even
RoundTenths(t) ==
    LET q == t \div 10
        r == t % 10
    IN  IF r < 5 THEN q
        ELSE IF r > 5 THEN q + 1
        ELSE IF q % 2 = 0 THEN q ELSE q + 1

\* the rating stored as given
ClampRating_NoClamp(n) == n

\* max(0, min(5, n))
ClampRating(n) == IF n < 0 THEN 0 ELSE IF n > 5 THEN 5 ELSE n

\* rating_int = max(0, min(5, int(round(float(rating)))))
RatingInt(rating) == ClampRating(RoundTenths(rating.tenths))

\* the movie_id and user_id arguments: a row that exists, and one that does not
MovieIds == {1, 9}
UserIds == {1, 9}
StoredMovies == {m \in MoviePool : m.movie_id = 1}
UserRow(id, name) == [user_id |-> id, username |-> name]
StoredUsers == {UserRow(1, <<"a">>)}
ReviewRow(id, movie, user, rating) ==
    [review_id |-> id, movie_id |-> movie, user_id |-> user, user_rating |-> rating]

\* review_id SERIAL, user_id SERIAL
NextId(rows) == Cardinality(rows) + 1

NoOperation ==
    [kind |-> "none", pc |-> "idle", conn |-> FALSE, acquired |-> 0, released |-> 0,
     movie_id |-> 0, user_id |-> 0, rating |-> NotANumber, username |-> <<>>,
     new_reviews |-> {}, new_users |-> {}, failure |-> "none", raising |-> FALSE,
     returned |-> FALSE, reviews_before |-> {}]

\* conn = None at the start of the try block of each of the four methods
Operation(kind, movie, user, rating, name, before) ==
    [NoOperation EXCEPT !.kind = kind, !.pc = "get", !.movie_id = movie,
                        !.user_id = user, !.rating = rating, !.username = name,
                        !.reviews_before = before]

\* the connections checked out: those of other operations and the one of op
CheckedOut == pool + (IF op.conn THEN 1 ELSE 0)

\* the first statement of the body, by method
BodyStart(kind) ==
    CASE kind = "execute_query" -> "query"
      [] kind = "execute_update" -> "update"
      [] kind = "create_user" -> "insert_user"
      [] OTHER -> "select_movie"

\* the tables are loaded and no operation is running
InitStore ==
    /\ api_key \in ApiKeys
    /\ pc = "idle"
    /\ user_input = <<>>
    /\ prompt = <<>>
    /\ response = NoResponse
    /\ sql_query = NoneStr
    /\ interpretation = <<>>
    /\ result = NoResult
    /\ posts = <<>>
    /\ queries = <<>>
    /\ searches = <<>>
    /\ http = NoRequest
    /\ catalog = StoredMovies
    /\ pool = 0
    /\ op = NoOperation
    /\ users = StoredUsers
    /\ reviews = {}
    /\ reg = <<>>
    /\ intro = <<>>
    /\ loaders = <<>>

\* what the store operations leave alone
pipeline == <<api_key, pc, user_input, prompt, response, sql_query, interpretation,
              result, posts, queries, searches, http, catalog>>

\* another request thread takes a connection: getconn() of the pool
OtherAcquire ==
    /\ CheckedOut < PoolMax
    /\ pool' = pool + 1
    /\ UNCHANGED <<pipeline, op, users, reviews, reg, intro, loaders>>

\* another request thread gives its connection back: putconn(conn)
OtherRelease ==
    /\ pool > 0
    /\ pool' = pool - 1
    /\ UNCHANGED <<pipeline, op, users, reviews, reg, intro, loaders>>

\* one of the four methods is called
BeginOperation ==
    /\ op.pc \in {"idle", "done"}
    /\ Cardinality(users) + Cardinality(reviews) <= MaxStored
    /\ \/ \E kind \in {"execute_query", "execute_update"} :
             op' = Operation(kind, 0, 0, NotANumber, <<>>, reviews)
       \/ \E name \in {<<"a">>, <<"k">>} :
             op' = Operation("create_user", 0, 0, NotANumber, name, reviews)
       \/ \E movie \in MovieIds, user \in UserIds, rating \in Ratings :
             op' = Operation("create_review", movie, user, rating, <<>>, reviews)
    /\ UNCHANGED <<pipeline, pool, users, reviews, reg, intro, loaders>>

\* conn = self.get_connection(): getconn() raises PoolError when maxconn
\* connections are checked out
GetConnection ==
    /\ op.pc = "get"
    /\ op' = IF CheckedOut >= PoolMax
             THEN [op EXCEPT !.failure = "pool", !.raising = TRUE, !.pc = "except"]
             ELSE [op EXCEPT !.conn = TRUE, !.acquired = @ + 1, !.pc = BodyStart(op.kind)]
    /\ UNCHANGED <<pipeline, pool, users, reviews, reg, intro, loaders>>

\* execute_query: cursor.execute(query, params); fetchone() or fetchall()
RunQuery ==
    /\ op.pc = "query"
    /\ \E ok \in BOOLEAN :
          op' = IF ok THEN [op EXCEPT !.pc = "finally"]
                ELSE [op EXCEPT !.failure = "store", !.raising = TRUE, !.pc = "except"]
    /\ UNCHANGED <<pipeline, pool, users, reviews, reg, intro, loaders>>

\* execute_update: cursor.execute(query, params)
RunUpdate ==
    /\ op.pc = "update"
    /\ \E ok \in BOOLEAN :
          op' = IF ok THEN [op EXCEPT !.pc = "commit"]
                ELSE [op EXCEPT !.failure = "store", !.raising = TRUE, !.pc = "except"]
    /\ UNCHANGED <<pipeline, pool, users, reviews, reg, intro, loaders>>

\* create_user: INSERT INTO "user" ... RETURNING ...
InsertUser ==
    /\ op.pc = "insert_user"
    /\ \E ok \in BOOLEAN :
          op' = IF ok
                THEN [op EXCEPT !.new_users = {UserRow(NextId(users), op.username)},
                                !.pc = "commit"]
                ELSE [op EXCEPT !.failure = "store", !.raising = TRUE, !.pc = "except"]
    /\ UNCHANGED <<pipeline, pool, users, reviews, reg, intro, loaders>>

\* create_review: SELECT movie_id FROM movie WHERE movie_id = %s
SelectMovie ==
    /\ op.pc = "select_movie"
    /\ \E ok \in BOOLEAN :
          op' = IF ~ok
                THEN [op EXCEPT !.failure = "store", !.raising = TRUE, !.pc = "except"]
                ELSE IF \E m \in catalog : m.movie_id = op.movie_id
                THEN [op EXCEPT !.pc = "select_user"]
                ELSE [op EXCEPT !.failure = "movie_missing", !.raising = TRUE,
                                !.pc = "except"]
    /\ UNCHANGED <<pipeline, pool, users, reviews, reg, intro, loaders>>

\* create_review: SELECT user_id, username FROM "user" WHERE user_id = %s
SelectUser ==
    /\ op.pc = "select_user"
    /\ \E ok \in BOOLEAN :
          op' = IF ~ok
                THEN [op EXCEPT !.failure = "store", !.raising = TRUE, !.pc = "except"]
                ELSE IF \E u \in users : u.user_id = op.user_id
                THEN [op EXCEPT !.pc = "insert_review"]
                ELSE [op EXCEPT !.failure = "user_missing", !.raising = TRUE,
                                !.pc = "except"]
    /\ UNCHANGED <<pipeline, pool, users, reviews, reg, intro, loaders>>

\* create_review: rating_int = ...; INSERT INTO review ... RETURNING ...
InsertReview ==
    /\ op.pc = "insert_review"
    /\ \E ok \in BOOLEAN :
          op' = IF ~op.rating.numeric
                THEN [op EXCEPT !.failure = "rating", !.raising = TRUE, !.pc = "except"]
                ELSE IF ~ok
                THEN [op EXCEPT !.failure = "store", !.raising = TRUE, !.pc = "except"]
                ELSE [op EXCEPT !.new_reviews =
                                    {ReviewRow(NextId(reviews), op.movie_id, op.user_id,
                                               RatingInt(op.rating))},
                                !.pc = "commit"]
    /\ UNCHANGED <<pipeline, pool, users, reviews, reg, intro, loaders>>

\* conn.commit(): the rows written in the transaction become rows of the tables
Commit ==
    /\ op.pc = "commit"
    /\ \E ok \in BOOLEAN :
          IF ok
          THEN /\ reviews' = reviews \cup op.new_reviews
               /\ users' = users \cup op.new_users
               /\ op' = [op EXCEPT !.new_reviews = {}, !.new_users = {}, !.pc = "finally"]
          ELSE /\ op' = [op EXCEPT !.failure = "store", !.raising = TRUE, !.pc = "except"]
               /\ UNCHANGED <<users, reviews>>
    /\ UNCHANGED <<pipeline, pool, reg, intro, loaders>>

\* except Exception: (if conn: conn.rollback(), not in execute_query); raise
Except ==
    /\ op.pc = "except"
    /\ op' = IF op.conn /\ op.kind # "execute_query"
             THEN [op EXCEPT !.new_reviews = {}, !.new_users = {}, !.pc = "finally"]
             ELSE [op EXCEPT !.pc = "finally"]
    /\ UNCHANGED <<pipeline, pool, users, reviews, reg, intro, loaders>>

\* the connection given back only when the body returned
Finally_KeepsOnError ==
    /\ op.pc = "finally"
    /\ op' = IF op.conn /\ ~op.raising
             THEN [op EXCEPT !.conn = FALSE, !.released = @ + 1, !.new_reviews = {},
                             !.new_users = {}, !.returned = TRUE, !.pc = "done"]
             ELSE [op EXCEPT !.returned = ~op.raising, !.pc = "done"]
    /\ UNCHANGED <<pipeline, pool, users, reviews, reg, intro, loaders>>

\* finally: if conn: self.release_connection(conn); putconn rolls back what
\* the connection left open
Finally ==
    /\ op.pc = "finally"
    /\ op' = IF op.conn
             THEN [op EXCEPT !.conn = FALSE, !.released = @ + 1, !.new_reviews = {},
                             !.new_users = {}, !.returned = ~op.raising, !.pc = "done"]
             ELSE [op EXCEPT !.returned = ~op.raising, !.pc = "done"]
    /\ UNCHANGED <<pipeline, pool, users, reviews, reg, intro, loaders>>

NextStore ==
    \/ OtherAcquire
    \/ OtherRelease
    \/ BeginOperation
    \/ GetConnection
    \/ RunQuery
    \/ RunUpdate
    \/ InsertUser
    \/ SelectMovie
    \/ SelectUser
    \/ InsertReview
    \/ Commit
    \/ Except
    \/ Finally

StoreSpec == InitStore /\ [][NextStore]_vars

(***************************************************************************)
(* POST /api/auth/register: register_user, get_user_by_username,           *)
(* create_user, each request on its own thread                             *)
(***************************************************************************)
\* SQL LOWER(), on the characters the usernames are built from
LowerChar(c) ==
    CASE c = "A" -> "a"
      [] c = "K" -> "k"
      [] OTHER -> c

Lower(s) == [i \in 1..Len(s) |-> LowerChar(s[i])]

Threads == 1..MaxThreads

\* the username field of the request body, as sent
Usernames == {<<>>, <<" ">>, <<"a">>, <<"A">>, <<"a", " ">>, <<"k">>}
\* len(password) after strip()
PasswordLengths == {0, 5, 6}

NoRegistration == [pc |-> "idle", username |-> <<>>, status |-> 0, created |-> {}]

\* WHERE LOWER(username) = LOWER(%s)
UsersNamed(name) == {u \in users : Lower(u.username) = Lower(name)}

InitRegister ==
    /\ api_key \in ApiKeys
    /\ pc = "idle"
    /\ user_input = <<>>
    /\ prompt = <<>>
    /\ response = NoResponse
    /\ sql_query = NoneStr
    /\ interpretation = <<>>
    /\ result = NoResult
    /\ posts = <<>>
    /\ queries = <<>>
    /\ searches = <<>>
    /\ http = NoRequest
    /\ catalog = StoredMovies
    /\ pool = 0
    /\ op = NoOperation
    /\ users = StoredUsers
    /\ reviews = {}
    /\ reg = [t \in Threads |-> NoRegistration]
    /\ intro = <<>>
    /\ loaders = <<>>

\* register_user up to the lookup: the fields are stripped; an empty field or
\* a password shorter than 6 is answered 400
RegisterUser(t) ==
    /\ reg[t].pc \in {"idle", "done"}
    /\ Cardinality(users) <= MaxStored
    /\ \E name \in Usernames, password \in PasswordLengths :
          LET username == Strip(name)
          IN  reg' = [reg EXCEPT ![t] =
                        IF username = <<>> \/ password = 0 \/ password < 6
                        THEN [pc |-> "done", username |-> username, status |-> 400,
                              created |-> {}]
                        ELSE [pc |-> "lookup", username |-> username, status |-> 0,
                              created |-> {}]]
    /\ UNCHANGED <<pipeline, pool, op, users, reviews, intro, loaders>>

\* if db_manager.get_user_by_username(username): 409; a failing query is
\* answered 500
LookupUsername(t) ==
    /\ reg[t].pc = "lookup"
    /\ \E ok \in BOOLEAN :
          reg' = [reg EXCEPT ![t] =
                    IF ~ok THEN [@ EXCEPT !.pc = "done", !.status = 500]
                    ELSE IF UsersNamed(reg[t].username) # {}
                    THEN [@ EXCEPT !.pc = "done", !.status = 409]
                    ELSE [@ EXCEPT !.pc = "create"]]
    /\ UNCHANGED <<pipeline, pool, op, users, reviews, intro, loaders>>

\* user = db_manager.create_user(...): the INSERT and its commit; the user
\* table has no constraint on username; a failing insert is answered 500
CreateUser(t) ==
    /\ reg[t].pc = "create"
    /\ \E ok \in BOOLEAN :
          IF ok
          THEN LET row == UserRow(NextId(users), reg[t].username)
               IN  /\ users' = users \cup {row}
                   /\ reg' = [reg EXCEPT ![t].pc = "done", ![t].status = 200,
                                          ![t].created = {row}]
          ELSE /\ reg' = [reg EXCEPT ![t].pc = "done", ![t].status = 500]
               /\ UNCHANGED users
    /\ UNCHANGED <<pipeline, pool, op, reviews, intro, loaders>>

NextRegister ==
    \E t \in Threads :
        \/ RegisterUser(t)
        \/ LookupUsername(t)
        \/ CreateUser(t)

RegisterSpec == InitRegister /\ [][NextRegister]_vars

(***************************************************************************)
(* utils/intro_loader.py: the module-level _intro_cache, load_intro_cache  *)
(* and get_movie_introduction, called from request threads                 *)
(***************************************************************************)
\* Intro.json: absent, not JSON, or one of two lists of entries
FileContents == {"missing", "unparsable", "v1", "v2"}

\* _build_intro_cache: {} when the file is missing or unparsable, else the
\* dictionary from id to introduction, here as a set of pairs
BuildIntroCache(file) ==
    IF file \in {"missing", "unparsable"} THEN {} ELSE {<<"7", file>>}

\* _intro_cache = None
NoCache == [isNone |-> TRUE, obj |-> 0, entries |-> {}]
\* a dictionary object: obj tells one object from another of equal content
CacheObject(n, entries) == [isNone |-> FALSE, obj |-> n, entries |-> entries]

\* cache.get(key, '')
CacheGet(cache, key) ==
    IF \E e \in cache.entries : e[1] = key
    THEN (CHOOSE e \in cache.entries : e[1] = key)[2]
    ELSE ""

\* the douban_id argument: None, '', an id of the file, an id not in it
IntroIds == {NoneStr, Some(<<>>), Some(<<"7">>), Some(<<"8">>)}
\* str(douban_id)
IdKey(id) == IF id.s = <<"7">> THEN "7" ELSE "8"

NoLoader ==
    [pc |-> "idle", douban_id |-> NoneStr, force |-> FALSE, lookup |-> FALSE,
     built |-> NoCache, answer |-> "", from |-> 0]

InitIntro ==
    /\ api_key \in ApiKeys
    /\ pc = "idle"
    /\ user_input = <<>>
    /\ prompt = <<>>
    /\ response = NoResponse
    /\ sql_query = NoneStr
    /\ interpretation = <<>>
    /\ result = NoResult
    /\ posts = <<>>
    /\ queries = <<>>
    /\ searches = <<>>
    /\ http = NoRequest
    /\ catalog = StoredMovies
    /\ pool = 0
    /\ op = NoOperation
    /\ users = StoredUsers
    /\ reviews = {}
    /\ reg = <<>>
    /\ intro \in {[cache |-> NoCache, file |-> f, builds |-> 0, lazy_builds |-> 0] :
                    f \in FileContents}
    /\ loaders = [t \in Threads |-> NoLoader]

\* get_movie_introduction(douban_id): '' at once for None or ''; otherwise
\* load_intro_cache() is entered
GetMovieIntroduction(t) ==
    /\ loaders[t].pc \in {"idle", "done"}
    /\ intro.builds < MaxLoads
    /\ \E id \in IntroIds :
          loaders' = [loaders EXCEPT ![t] =
                        IF id.isNone \/ id.s = <<>>
                        THEN [NoLoader EXCEPT !.pc = "done", !.douban_id = id,
                                              !.lookup = TRUE]
                        ELSE [NoLoader EXCEPT !.pc = "check", !.douban_id = id,
                                              !.lookup = TRUE]]
    /\ UNCHANGED <<pipeline, pool, op, users, reviews, reg, intro>>

\* load_intro_cache(force_refresh=True) is entered: the condition holds
\* without looking at _intro_cache
ForceRefresh(t) ==
    /\ loaders[t].pc \in {"idle", "done"}
    /\ intro.builds < MaxLoads
    /\ loaders' = [loaders EXCEPT ![t] = [NoLoader EXCEPT !.pc = "build", !.force = TRUE]]
    /\ UNCHANGED <<pipeline, pool, op, users, reviews, reg, intro>>

\* if force_refresh or _intro_cache is None
CheckCache(t) ==
    /\ loaders[t].pc = "check"
    /\ loaders' = [loaders EXCEPT ![t].pc = IF intro.cache.isNone THEN "build" ELSE "return"]
    /\ UNCHANGED <<pipeline, pool, op, users, reviews, reg, intro>>

\* _build_intro_cache() reads the file and returns a new dictionary
Build(t) ==
    /\ loaders[t].pc = "build"
    /\ intro' = [intro EXCEPT !.builds = @ + 1,
                              !.lazy_builds = IF loaders[t].force THEN @ ELSE @ + 1]
    /\ loaders' = [loaders EXCEPT ![t].pc = "assign",
                                  ![t].built = CacheObject(intro.builds + 1,
                                                           BuildIntroCache(intro.file))]
    /\ UNCHANGED <<pipeline, pool, op, users, reviews, reg>>

\* _intro_cache = <the dictionary built>
Assign(t) ==
    /\ loaders[t].pc = "assign"
    /\ intro' = [intro EXCEPT !.cache = loaders[t].built]
    /\ loaders' = [loaders EXCEPT ![t].pc = "return"]
    /\ UNCHANGED <<pipeline, pool, op, users, reviews, reg>>

\* return _intro_cache; in get_movie_introduction, cache.get(str(douban_id), '')
Return(t) ==
    /\ loaders[t].pc = "return"
    /\ loaders' = [loaders EXCEPT ![t].pc = "done",
                                  ![t].from = intro.cache.obj,
                                  ![t].answer = IF loaders[t].lookup
                                                THEN CacheGet(intro.cache,
                                                              IdKey(loaders[t].douban_id))
                                                ELSE ""]
    /\ UNCHANGED <<pipeline, pool, op, users, reviews, reg, intro>>

\* Intro.json is written, removed or damaged while the server runs
FileChange ==
    /\ \E f \in FileContents \ {intro.file} : intro' = [intro EXCEPT !.file = f]
    /\ UNCHANGED <<pipeline, pool, op, users, reviews, reg, loaders>>

NextIntro ==
    \/ FileChange
    \/ \E t \in Threads :
          \/ GetMovieIntroduction(t)
          \/ ForceRefresh(t)
          \/ CheckCache(t)
          \/ Build(t)
          \/ Assign(t)
          \/ Return(t)

IntroSpec == InitIntro /\ [][NextIntro]_vars

(***************************************************************************)
(* Properties                                                              *)
(***************************************************************************)
\* the outcome of the POST of this invocation, and the content it carried
FirstPost == posts[1].outcome
ModelContent == posts[1].outcome.content
LastSearch == searches[Len(searches)]
FirstQuery == queries[1]

\* the first n elements of a sequence, all of them when it is shorter
FirstRows(rows, n) == [k \in 1..(IF Len(rows) < n THEN Len(rows) ELSE n) |-> rows[k]]

\* trimmed and upper-cased, the text begins with SELECT
BeginsWithSelect(t) == StartsWith(Upper(Strip(t)), SELECT)

\* ai_search returned the Fallback result: the rows of the last search_movies
\* call, made with the user text, the synthesized keyword-filter sql and the
\* keyword-search interpretation
ReturnedFallback ==
    /\ searches # <<>>
    /\ \A i \in 1..Len(searches) : searches[i].keyword = user_input
    /\ ~LastSearch.outcome.raised
    /\ result.returned
    /\ result.movies = LastSearch.outcome.rows
    /\ result.sql = <<"SELECT * FROM movie WHERE ", "cn_title ILIKE '%">>
                        \o user_input \o <<"%'">>
    /\ result.interpretation = <<"[keyword search]", ":", " ">> \o user_input

\* the model answered with a structured record whose sql field is a string
StructuredSql ==
    /\ posts # <<>>
    /\ FirstPost.event = "content"
    /\ ModelContent.kind = "object"
    /\ ModelContent.sql.tag = "str"

\* C1 (as claimed): ai_search never raises, whatever the collaborators do.
C1_NeverRaises == pc # "raised"

\* C1 (amended): ai_search returns a result object with movies, sql and
\* interpretation for every user text and every outcome of the credential, the
\* model call, the model text and the generated statement; it raises only when
\* the keyword search raised in the except handler, that is, when the last
\* search_movies call of the invocation raised.
C1_TotalUnlessSearchRaises ==
    /\ pc = "done" => result.returned
    /\ pc = "raised" =>
          /\ ~result.returned
          /\ Len(searches) >= 1
          /\ LastSearch.outcome.raised
    /\ (pc \in {"except", "raised"} /\ searches = <<>>) =>
          (pc = "except" /\ ParseAiResponse(response).raised)

\* C1 witness: an exception raised inside the try block (here by the first
\* keyword search) was absorbed and ai_search returned a result.
C1_Witness ==
    /\ pc = "done"
    /\ result.returned
    /\ Len(searches) = 2
    /\ searches[1].outcome.raised

\* C2: every generated statement passed to execute_query begins with SELECT
\* after trimming and upper-casing, and so does every statement the Response
\* Parser returned.
C2_ReadOnly ==
    /\ \A i \in 1..Len(queries) : BeginsWithSelect(queries[i].sql)
    /\ ~sql_query.isNone => BeginsWithSelect(sql_query.s)

\* C2 witness: a statement written in lower case was accepted and executed.
C2_Witness ==
    /\ queries # <<>>
    /\ FirstQuery.sql # Upper(FirstQuery.sql)
    /\ sql_query = Some(FirstQuery.sql)

\* the statement carries a second statement, a DROP, after a semicolon
HasTrailingDrop(t) == Contains(Upper(t), <<";", "D", "R", "O", "P">>)

\* C3 (as claimed): a generated statement that starts with SELECT and carries a
\* trailing "; DROP" is never passed to execute_query, and ai_search returns
\* the Fallback result for it.
C3_InjectionRejected ==
    /\ \A i \in 1..Len(queries) : ~HasTrailingDrop(queries[i].sql)
    /\ (/\ pc = "done"
        /\ StructuredSql
        /\ ModelContent.interpretation.tag = "str"
        /\ BeginsWithSelect(ModelContent.sql.val)
        /\ HasTrailingDrop(ModelContent.sql.val)) => ReturnedFallback

WriteVerbs ==
    { <<"I", "N", "S", "E", "R", "T">>, <<"U", "P", "D", "A", "T", "E">>,
      <<"D", "E", "L", "E", "T", "E">>, <<"D", "R", "O", "P">> }

\* the sql field of the structured response begins with a write verb
WriteStatement ==
    /\ StructuredSql
    /\ \E v \in WriteVerbs : StartsWith(Upper(Strip(ModelContent.sql.val)), v)

\* C4: a structured response whose sql begins with INSERT, UPDATE, DELETE or
\* DROP is never executed, and what ai_search returns for it is the Fallback
\* result of search_movies on the unmodified user text.
C4_WriteVerbFallsBack ==
    WriteStatement =>
        /\ queries = <<>>
        /\ pc # "execute"
        /\ pc = "done" => ReturnedFallback

\* C4 witness: a write statement came back and ai_search returned keyword rows.
C4_Witness ==
    /\ WriteStatement
    /\ pc = "done"
    /\ result.movies # <<>>
    /\ user_input # <<>>

\* C5: the movies list returned on the AI-execution path has at most 50 rows,
\* however many rows the store returned for the generated statement.
C5_RowCap ==
    (pc = "done" /\ queries # <<>>) => Len(result.movies) <= 50

\* C5 witness: the store returned more than 50 rows and 50 were returned.
C5_Witness ==
    /\ pc = "done"
    /\ queries # <<>>
    /\ Len(FirstQuery.outcome.rows) > 50
    /\ Len(result.movies) = 50

\* C6: with no credential configured, ai_search builds no prompt, makes no
\* POST and executes no generated statement; it calls search_movies(text) and
\* returns its rows, with an interpretation containing the keyword-search label
\* and an sql containing cn_title ILIKE '%<text>%'.
C6_AvailabilityGate ==
    api_key = <<>> =>
        /\ prompt = <<>>
        /\ posts = <<>>
        /\ queries = <<>>
        /\ pc \notin {"build", "call_api", "parse", "execute"}
        /\ pc = "done" =>
              /\ searches # <<>>
              /\ \A i \in 1..Len(searches) : searches[i].keyword = user_input
              /\ result.movies = LastSearch.outcome.rows
              /\ Contains(result.interpretation, <<"[keyword search]">>)
              /\ Contains(result.sql, <<"cn_title ILIKE '%">> \o user_input \o <<"%'">>)

\* C6 witness: no credential, a non-empty text, keyword rows returned.
C6_Witness ==
    /\ api_key = <<>>
    /\ pc = "done"
    /\ user_input # <<>>
    /\ result.movies # <<>>

\* the POST ended in a status other than 200, a network error or a timeout
InvocationFailed ==
    /\ posts # <<>>
    /\ FirstPost.event \in {"non200", "network_error", "timeout"}

\* C7: when the POST fails, _call_deepseek_api returns None without raising
\* (the except handler of ai_search is not entered by it), the parser and the
\* executor are not run, and ai_search returns the Fallback result.
C7_InvocationFailureFallsBack ==
    InvocationFailed =>
        /\ response = NoResponse
        /\ Len(posts) = 1
        /\ queries = <<>>
        /\ pc \in {"fallback_api", "except", "done", "raised"}
        /\ pc = "except" => (searches # <<>> /\ LastSearch.outcome.raised)
        /\ pc = "done" => ReturnedFallback

\* C7 witness: the POST timed out and ai_search returned keyword rows.
C7_Witness ==
    /\ posts # <<>>
    /\ FirstPost.event = "timeout"
    /\ pc = "done"
    /\ Len(searches) = 1
    /\ result.movies # <<>>

\* the store raised on the accepted generated statement
ExecutionFailed == queries # <<>> /\ FirstQuery.outcome.raised

C9_ExecutionErrorCaught ==
    \A i \in 1..Len(queries) :
        queries[i].outcome.raised =>
            /\ pc = "done"
            /\ result.returned
            /\ result.movies = <<>>

\* C9 witness: the store raised on an executed statement.
C9_Witness ==
    /\ Len(queries) = 1
    /\ queries[1].outcome.raised
    /\ result.returned

\* the model answered with a structured record whose sql starts with SELECT
SelectRecord == StructuredSql /\ BeginsWithSelect(ModelContent.sql.val)

\* C10 (as claimed): for a structured record whose sql starts with SELECT,
\* ai_search executes that statement (trimmed) once, returns the store's rows
\* (at most 50), that statement as sql and the model's interpretation string
\* as interpretation, and does not invoke the keyword search.
C10_HappyPath ==
    (SelectRecord /\ pc \in {"done", "raised"}) =>
        /\ pc = "done"
        /\ searches = <<>>
        /\ Len(queries) = 1
        /\ FirstQuery.sql = Strip(ModelContent.sql.val)
        /\ ~FirstQuery.outcome.raised => result.movies = FirstRows(FirstQuery.outcome.rows, 50)
        /\ result.sql = Strip(ModelContent.sql.val)
        /\ ModelContent.interpretation.tag = "str" =>
              result.interpretation = ModelContent.interpretation.val

\* C10 (amended): for a structured record whose sql, trimmed and upper-cased,
\* starts with SELECT: when its interpretation field is a string or absent,
\* ai_search executes that statement (trimmed) once, returns the store's rows
\* cut to 50 (no rows when the store raised), that statement as sql and, as
\* interpretation, the model's interpretation trimmed of white space (the
\* default text when the field is absent), and does not invoke the keyword
\* search; when the interpretation field is null or no string, the statement
\* is not executed and ai_search goes to the keyword search.
C10_HappyPathTrimmed ==
    (SelectRecord /\ pc \in {"done", "raised"}) =>
        IF ModelContent.interpretation.tag \in {"str", "absent"}
        THEN /\ pc = "done"
             /\ searches = <<>>
             /\ Len(queries) = 1
             /\ FirstQuery.sql = Strip(ModelContent.sql.val)
             /\ result.movies = IF FirstQuery.outcome.raised THEN <<>>
                                ELSE FirstRows(FirstQuery.outcome.rows, 50)
             /\ result.sql = Strip(ModelContent.sql.val)
             /\ result.interpretation =
                    IF ModelContent.interpretation.tag = "absent"
                    THEN <<"[AI generated query]">>
                    ELSE Strip(ModelContent.interpretation.val)
        ELSE /\ queries = <<>>
             /\ searches # <<>>
             /\ pc = "done" => ReturnedFallback

\* C10 witness: a SELECT record with surrounding white space was executed and
\* its rows came back.
C10_Witness ==
    /\ SelectRecord
    /\ ModelContent.sql.val # Strip(ModelContent.sql.val)
    /\ ModelContent.interpretation.tag = "str"
    /\ pc = "done"
    /\ Len(queries) = 1
    /\ result.movies # <<>>
    /\ searches = <<>>

\* the raw text the parser was given, the place of its first SELECT in either
\* case, and the text from there up to the first fence after it
RawText == response.raw
FirstSelect ==
    Min({i \in 0..(Len(RawText) - Len(SELECT)) :
            Upper(SubSeq(RawText, i + 1, i + Len(SELECT))) = SELECT})
FenceAfterSelect ==
    Min({j \in (FirstSelect + Len(SELECT))..(Len(RawText) - Len(FENCE)) :
            SubSeq(RawText, j + 1, j + Len(FENCE)) = FENCE})
UpToFence == SubSeq(RawText, FirstSelect + 1, FenceAfterSelect)

\* the model text is no JSON and holds SELECT followed later by a code fence
SelectThenFence ==
    /\ response.kind = "text"
    /\ \E i \in 0..(Len(RawText) - Len(SELECT)) :
          /\ Upper(SubSeq(RawText, i + 1, i + Len(SELECT))) = SELECT
          /\ \E j \in (i + Len(SELECT))..(Len(RawText) - Len(FENCE)) :
                SubSeq(RawText, j + 1, j + Len(FENCE)) = FENCE

TrimChars == {" ", "\n", "\r", "\t", ","}

\* e is cut without its trailing white space and commas
TrimmedOfBoth(e, cut) ==
    \E k \in 0..Len(cut) :
        /\ e = SubSeq(cut, 1, k)
        /\ \A i \in (k + 1)..Len(cut) : cut[i] \in TrimChars
        /\ k > 0 => cut[k] \notin TrimChars

\* e is cut without its trailing white space and, after that, without the
\* commas it then ends in: white space before those commas stays
StrippedThenCommas(e, cut) ==
    \E k \in 0..Len(cut) : \E j \in k..Len(cut) :
        /\ e = SubSeq(cut, 1, k)
        /\ \A i \in (k + 1)..j : cut[i] = ","
        /\ \A i \in (j + 1)..Len(cut) : IsSpace(cut[i])
        /\ k > 0 => cut[k] # ","
        /\ j > 0 => ~IsSpace(cut[j])

\* the parser has returned and ai_search has gone on
AfterParse == pc # "parse"

C12_NoRetry ==
    /\ Len(posts) <= 1
    /\ api_key = <<>> => posts = <<>>
    /\ (posts # <<>> /\ FirstPost.event # "content") =>
          pc \in {"fallback_api", "except", "done", "raised"}

\* C12 witness: the one POST failed and ai_search went on to return.
C12_Witness ==
    /\ Len(posts) = 1
    /\ FirstPost.event = "non200"
    /\ pc = "done"

\* C13 (as claimed): a completed invocation has issued exactly one query to the
\* store, the generated statement or the keyword search.
C13_ExactlyOneDbCall ==
    pc = "done" => Len(queries) + Len(searches) = 1

\* C14 (as claimed): within one invocation search_movies is called at most
\* once; a keyword search that raised is not attempted again.
C14_FallbackOnce == Len(searches) <= 1

\* the stages of one request in the order the code goes through them
Rank(p) ==
    CASE p = "idle" -> 9
      [] p = "gate" -> 8
      [] p = "build" -> 7
      [] p = "call_api" -> 6
      [] p = "parse" -> 5
      [] p \in FallbackSites \cup {"execute"} -> 4
      [] p = "except" -> 3
      [] p \in {"done", "raised"} -> 2
      [] OTHER -> 1

\* the stages of ai_search that have not returned or raised yet
InFlight == {"gate", "build", "call_api", "parse", "execute", "except"} \cup FallbackSites

\* one step of ai_search
PipelineStep ==
    \/ AvailabilityGate
    \/ BuildPrompt
    \/ CallApi
    \/ ParseResponse
    \/ ExecuteAiSql
    \/ KeywordFallback
    \/ ExceptFallback

\* C15 (as claimed): an invocation that has left the stages of the pipeline has
\* reached DONE: it returned.
C15_ReachesDone ==
    (pc \notin InFlight /\ (posts # <<>> \/ searches # <<>>)) => result.returned

\* C15 (amended): the pipeline is a forward path with no cycles (every step
\* moves to a later stage, and stays at most once, when the client goes away
\* during the POST), no stage is stuck once its collaborator call returned or
\* raised (the parser itself returns or raises on every response), and an
\* invocation ends in DONE or, when the keyword search raised in the except
\* handler, by raising.
C15_Terminates ==
    /\ [][pc' # pc => Rank(pc') < Rank(pc)]_vars
    /\ [][(pc' = pc /\ pc \in InFlight) =>
              (pc = "call_api" /\ ~http.cancelled /\ http'.cancelled)]_vars
    /\ [](pc \in InFlight \ {"parse"} => ENABLED PipelineStep)
    /\ [](pc = "parse" => ParseAiResponse(response).raised \in BOOLEAN)
    /\ [](pc \notin InFlight /\ (posts # <<>> \/ searches # <<>>) =>
            \/ result.returned
            \/ searches # <<>> /\ LastSearch.outcome.raised)

\* C15 witness: an invocation went through every stage and ended by raising.
C15_Witness ==
    /\ pc = "raised"
    /\ Len(posts) = 1
    /\ Len(searches) = 1

\* C16: the handler answers 500 for a request that reached the pipeline only
\* when the keyword search raised last; a request whose query is empty or
\* missing is answered 400; whenever ai_search returned, whatever failed at the
\* gate, the model call, the parser or the execution, the answer is 200.
C16_ErrorOnlyFromKeywordSearch ==
    (http.active /\ http.body.json_object) =>
        /\ http.status = 500 =>
              /\ searches # <<>>
              /\ LastSearch.outcome.raised
              /\ ~result.returned
        /\ (http.body.query.tag # "str" \/ http.body.query.val = <<>>) => http.status = 400
        /\ (http.status # 0 /\ result.returned) => http.status = 200

\* C16 witness: a request went through the model call and was answered 500.
C16_Witness ==
    /\ http.active
    /\ http.status = 500
    /\ Len(posts) = 1
    /\ Len(searches) >= 1

\* C17: a request whose query text is empty or missing is answered with an
\* error and never reaches DatabaseManager.ai_search: no prompt, no POST, no
\* statement, no keyword search.
C17_EmptyQueryRejected ==
    (http.active /\ (http.body.query.tag # "str" \/ http.body.query.val = <<>>)) =>
        /\ http.status \in {400, 500}
        /\ pc = "responded"
        /\ user_input = <<>>
        /\ prompt = <<>>
        /\ posts = <<>>
        /\ queries = <<>>
        /\ searches = <<>>
        /\ ~result.returned

\* C17 witness: a request with an empty query string was answered 400.
C17_Witness ==
    /\ http.active
    /\ http.body.json_object
    /\ http.body.query = Str(<<>>)
    /\ http.status = 400

\* C18 (as claimed): the rows ai_search returns on the AI-execution path have
\* exactly the fields of the keyword-search rows.
C18_ShapeParity ==
    (pc = "done" /\ queries # <<>> /\ result.movies # <<>>) =>
        result.cols = {"movie_id", "rank", "cn_title", "original_title", "year",
                       "rating", "poster_url", "directors", "actors"}

\* Python "p in s" on the upper-cased texts
ContainsIgnoringCase(s, p) == Contains(Upper(s), Upper(p))

\* the movie holds the text in one of the four places
HoldsText(m, text) ==
    \/ ContainsIgnoringCase(m.cn_title, text)
    \/ ~m.original_title.isNone /\ ContainsIgnoringCase(m.original_title.s, text)
    \/ \E d \in m.directors : ContainsIgnoringCase(d, text)
    \/ \E a \in m.actors : ContainsIgnoringCase(a, text)

\* C19 (as claimed): for every keyword, % and _ included, and every catalog,
\* search_movies returns exactly the movies whose native title, original
\* title, some director name or some actor name contains the keyword as a
\* case-insensitive substring, ordered by rank, the first 50 of them.
C19_SubstringMatch ==
    \A i \in 1..Len(searches) :
        LET holding == {m \in catalog : HoldsText(m, searches[i].keyword)}
            rows == searches[i].outcome.rows
        IN  /\ Len(rows) = IF Cardinality(holding) < SearchLimit
                           THEN Cardinality(holding) ELSE SearchLimit
            /\ \A k \in 1..Len(rows) :
                  \E m \in holding :
                      /\ m.movie_id = rows[k]
                      /\ Cardinality({n \in holding : n.rank < m.rank}) = k - 1

\* C20 (as claimed): once the request is cancelled while the model call is in
\* flight, the call is abandoned and ai_search goes directly to the keyword
\* search: the model's answer is neither parsed nor executed.
C20_CancelFallsBack ==
    http.cancelled =>
        /\ pc \notin {"parse", "execute"}
        /\ queries = <<>>
        /\ pc = "done" => ReturnedFallback

\* the sql field of the record is a string that does not begin with SELECT but
\* holds SELECT further on, so the whole model text holds it too
RecordWithLaterSelect ==
    /\ StructuredSql
    /\ ModelContent.interpretation.tag \in {"str", "absent"}
    /\ ~BeginsWithSelect(ModelContent.sql.val)
    /\ Contains(Upper(ModelContent.sql.val), SELECT)

\* C23 (as claimed): when the model text is a structured record whose sql
\* field does not start with SELECT, the parser goes on to scan the whole
\* text and returns the statement it extracts from the first SELECT on; it
\* does not signal "no statement".
C23_RecordFallsToRawScan ==
    (RecordWithLaterSelect /\ pc \notin {"call_api", "parse"}) =>
        /\ ~sql_query.isNone
        /\ StartsWith(Upper(sql_query.s), SELECT)
        /\ pc \notin FallbackSites
        /\ searches = <<>>

\* the raw text holds SELECT in either case
HasSelect ==
    /\ response.kind = "text"
    /\ \E i \in 0..(Len(RawText) - Len(SELECT)) :
          Upper(SubSeq(RawText, i + 1, i + Len(SELECT))) = SELECT

\* the places after the first SELECT where a code fence or a blank line starts
TerminatorsAfterSelect ==
    {j \in (FirstSelect + Len(SELECT))..Len(RawText) :
        \/ /\ j + Len(FENCE) <= Len(RawText)
           /\ SubSeq(RawText, j + 1, j + Len(FENCE)) = FENCE
        \/ /\ j + Len(NLNL) <= Len(RawText)
           /\ SubSeq(RawText, j + 1, j + Len(NLNL)) = NLNL}

\* the text from the first SELECT up to the earliest terminator, or to the end
UpToEarliestTerminator ==
    SubSeq(RawText, FirstSelect + 1,
           IF TerminatorsAfterSelect = {} THEN Len(RawText)
           ELSE Min(TerminatorsAfterSelect))

\* C24 (as claimed): the statement scanned from raw text ends at whichever
\* terminator, code fence or blank line, comes first after the first SELECT;
\* a blank line before a later fence cuts the statement at the blank line.
C24_CutAtEarliestTerminator ==
    (HasSelect /\ AfterParse) =>
        /\ ~sql_query.isNone
        /\ StrippedThenCommas(sql_query.s, UpToEarliestTerminator)

\* C26 (as claimed): the parser returns (statement, interpretation) or
\* (None, interpretation) for every model text, also for JSON that is no
\* object and for a record whose sql or interpretation is null or no string;
\* it never raises, so the except handler of ai_search is not entered by it.
C26_ParserTotal ==
    /\ response.kind # "none" => ~ParseAiResponse(response).raised
    /\ pc = "except" => searches # <<>>


\* C21: no operation's outcome depends on another operation being in flight:
\* a completed execute_query never ends with a failure that only the
\* connections held by other operations can cause
C21_IndependentOfOthers ==
    (op.kind = "execute_query" /\ op.pc = "done") => op.failure # "pool"

\* C27: every operation gives back the connection it took exactly once, on
\* the returning and on every raising path; with all operations completed no
\* connection is checked out, and never more than PoolMax are
C27_PoolBalance ==
    /\ CheckedOut <= PoolMax
    /\ op.acquired <= 1
    /\ op.released <= op.acquired
    /\ op.conn <=> (op.acquired = 1 /\ op.released = 0)
    /\ op.pc = "done" => (op.released = op.acquired /\ ~op.conn)
    /\ (op.pc \in {"idle", "done"} /\ pool = 0) => CheckedOut = 0

\* an operation that took a connection, raised, and completed
C27_Witness ==
    /\ op.pc = "done"
    /\ op.raising
    /\ op.acquired = 1
    /\ op.released = 1
    /\ op.kind = "create_review"

\* C29: a completed create_review either returned, having added exactly one
\* committed row for an existing movie and an existing user with a rating in
\* 0..5, or raised, leaving the review table as it was and nothing pending
C29_AllOrNothing ==
    (op.kind = "create_review" /\ op.pc = "done") =>
        /\ op.new_reviews = {}
        /\ op.returned =>
              \E row \in reviews :
                  /\ row \notin op.reviews_before
                  /\ reviews = op.reviews_before \cup {row}
                  /\ \E m \in catalog : m.movie_id = row.movie_id
                  /\ \E u \in users : u.user_id = row.user_id
                  /\ row.user_rating \in 0..5
        /\ ~op.returned => (op.raising /\ reviews = op.reviews_before)

\* a create_review that returned for a rating above 5, and stored 5
C29_Witness ==
    /\ op.kind = "create_review"
    /\ op.pc = "done"
    /\ op.returned
    /\ op.rating = Number(60)
    /\ \E row \in reviews : row \notin op.reviews_before /\ row.user_rating = 5


\* C28: after any interleaving of register requests no two user rows have
\* usernames equal ignoring case
C28_UsernamesUnique ==
    \A u1, u2 \in users :
        Lower(u1.username) = Lower(u2.username) => u1 = u2


\* C25: without force_refresh, _build_intro_cache runs at most once, also
\* when several threads call get_movie_introduction before the cache is set
C25_BuiltOnce == intro.lazy_builds <= 1

\* a step of a load_intro_cache(force_refresh=True) that assigns the cache
ForcedAssign == \E t \in Threads : loaders[t].pc = "assign" /\ loaders[t].force /\ Assign(t)

\* C30: once the cache is set (empty or not) it stays the same object until a
\* load with force_refresh replaces it, and a call with None or '' returns ''
\* without changing it
C30_SnapshotKept ==
    [][/\ (~intro.cache.isNone /\ intro.cache' # intro.cache) => ForcedAssign
       /\ \A t \in Threads :
             (loaders'[t] # loaders[t] /\ loaders'[t].pc = "done"
                 /\ loaders'[t].lookup
                 /\ (loaders'[t].douban_id.isNone \/ loaders'[t].douban_id.s = <<>>))
             => (loaders'[t].answer = "" /\ intro' = intro)]_vars

====
